---- MODULE Spec2Model ----
(***************************************************************************)
(* A model of the XSpiPs driver (xspips.c, spips_v1_04_a): the transfer    *)
(* state of one device instance, the device's registers and FIFOs, and the *)
(* driver's operations XSpiPs_Transfer, XSpiPs_PolledTransfer,             *)
(* XSpiPs_InterruptHandler, XSpiPs_Abort, XSpiPs_Reset,                    *)
(* XSpiPs_CfgInitialize, XSpiPs_SetSlaveSelect and XSpiPs_GetSlaveSelect.  *)
(*                                                                         *)
(* Each driver call is one action, except XSpiPs_PolledTransfer, whose     *)
(* busy-wait on the status register lets the device run between its fill   *)
(* and its drain: it is an entry action and one action per loop pass.      *)
(* Under Spec the interrupt handler runs between the caller's calls, never *)
(* inside one.                                                             *)
(*                                                                         *)
(* The device is the environment.  It is modelled by the contract the      *)
(* driver relies on: writing TXD pushes, reading RXD pops, the enabled     *)
(* device clocks one byte out of the transmit FIFO and one answered byte   *)
(* into the receive FIFO at a time, TXOW reads 1 while the transmit FIFO   *)
(* is empty (threshold 1), MODF/RXOVR/TXUF are sticky write-one-to-clear   *)
(* flags the bus may raise at any time while the device is enabled.        *)
(***************************************************************************)
EXTENDS Integers, Sequences, FiniteSets, TLC

(* ------------------------------ bounds -------------------------------- *)

\* Largest ByteCount a caller passes.
MaxBytes == 3

\* Largest FIFO depth the device is built with (XSPIPS_FIFO_DEPTH ranges
\* over 1..MaxDepth).
MaxDepth == 2

\* Largest number of fault events the bus raises in one behaviour.
MaxFaults == 1

\* Slave select lines 0..MaxSlaveSel are wired.
MaxSlaveSel == 2

(* ----------------------------- constants ------------------------------ *)

\* XSPIPS_CR_SSCTRL_MAXIMUM: the slave select field is four bits wide.
XSPIPS_CR_SSCTRL_MAXIMUM == 15

\* XSPIPS_CR_SSCTRL_SHIFT: the slave select field starts at bit 10.
XSPIPS_CR_SSCTRL_SHIFT == 10

\* Status and interrupt bits (xspips_hw.h XSPIPS_IXR_*).
XSPIPS_IXR_WR_TO_CLR_MASK == {"MODF", "RXOVR", "TXUF"}

XSPIPS_IXR_DFLT_MASK == {"TXOW", "MODF", "RXOVR", "RXFULL"}

XSPIPS_IXR_TXOW_MASK == {"TXOW"}

XSPIPS_IXR_MODF_MASK == {"MODF"}

\* XSPIPS_CR_RESET_STATE: only MODFAIL_GEN_EN is set; the slave select field
\* and the option bits are 0.
XSPIPS_CR_RESET_STATE == [ss |-> 0, ssforce |-> FALSE, manstrten |-> FALSE, mstren |-> FALSE]

NULL == [buf |-> "null", off |-> 0]

\* The arguments of XSpiPs_SetSlaveSelect: a wired line, or
\* XSPIPS_CR_SSCTRL_MAXIMUM for none.
SlaveSels == (0..MaxSlaveSel) \cup {XSPIPS_CR_SSCTRL_MAXIMUM}

\* The base addresses a caller may bind.
BaseAddrs == {"XPAR_XSPIPS_0_BASEADDR", "XPAR_XSPIPS_1_BASEADDR"}

\* The base address of the one configured device.
BaseAddr0 == {"XPAR_XSPIPS_0_BASEADDR"}

\* The receive buffer of a call: none, the send buffer itself, or its own.
RecvAll == {"null", "A", "B"}

\* A receive buffer of its own.
RecvOwn == {"B"}

\* No receive buffer, or one of its own.
RecvNoAlias == {"null", "B"}

BufNames == {"A", "B"}

\* The caller's send data: byte i of the send buffer is i.
Pattern(n) == [i \in 1..n |-> i]

Zeros(n) == [i \in 1..n |-> 0]

(* ------------------------------- state -------------------------------- *)

VARIABLES
    \* XSpiPs instance
    isBusy, sendBufferPtr, recvBufferPtr, requestedBytes, remainingBytes,
    slaveSelect, isReady, statusHandler, baseAddress,
    \* device registers and FIFOs
    cr, enabled, sticky, imr, txFifo, rxFifo, manStart,
    \* device build and bus
    depth, bus,
    \* the caller's buffers
    mem,
    \* the caller's position and PolledTransfer's local TransCount
    pc, transCount,
    \* observation of the current transfer
    curMode, curN, curRecv, txLog, rxLog, memWrites, fills, cbLog,
    \* handler invocations since the current transfer was accepted
    handlerRuns,
    \* fault events raised so far
    faults

vars == <<isBusy, sendBufferPtr, recvBufferPtr, requestedBytes, remainingBytes,
          slaveSelect, isReady, statusHandler, baseAddress,
          cr, enabled, sticky, imr, txFifo, rxFifo, manStart,
          depth, bus, mem, pc, transCount,
          curMode, curN, curRecv, txLog, rxLog, memWrites, fills, cbLog,
          handlerRuns, faults>>

\* The state as one record, so that a call's statements compose in order.
\* ret is the value the call returns; it is no part of the state.
Cur ==
    [isBusy |-> isBusy, sendBufferPtr |-> sendBufferPtr, recvBufferPtr |-> recvBufferPtr,
     requestedBytes |-> requestedBytes, remainingBytes |-> remainingBytes,
     slaveSelect |-> slaveSelect, isReady |-> isReady,
     statusHandler |-> statusHandler, baseAddress |-> baseAddress, cr |-> cr, enabled |-> enabled, sticky |-> sticky,
     imr |-> imr, txFifo |-> txFifo, rxFifo |-> rxFifo, manStart |-> manStart,
     depth |-> depth, bus |-> bus, mem |-> mem, pc |-> pc, transCount |-> transCount,
     ret |-> "none", curMode |-> curMode, curN |-> curN, curRecv |-> curRecv,
     txLog |-> txLog,
     rxLog |-> rxLog, memWrites |-> memWrites, fills |-> fills, cbLog |-> cbLog,
     handlerRuns |-> handlerRuns, faults |-> faults]

Commit(s0) ==
    \E s \in {s0} :
        /\ isBusy' = s.isBusy
        /\ sendBufferPtr' = s.sendBufferPtr
        /\ recvBufferPtr' = s.recvBufferPtr
        /\ requestedBytes' = s.requestedBytes
        /\ remainingBytes' = s.remainingBytes
        /\ slaveSelect' = s.slaveSelect
        /\ isReady' = s.isReady
        /\ statusHandler' = s.statusHandler
        /\ baseAddress' = s.baseAddress
        /\ cr' = s.cr
        /\ enabled' = s.enabled
        /\ sticky' = s.sticky
        /\ imr' = s.imr
        /\ txFifo' = s.txFifo
        /\ rxFifo' = s.rxFifo
        /\ manStart' = s.manStart
        /\ depth' = s.depth
        /\ bus' = s.bus
        /\ mem' = s.mem
        /\ pc' = s.pc
        /\ transCount' = s.transCount
        /\ curMode' = s.curMode
        /\ curN' = s.curN
        /\ curRecv' = s.curRecv
        /\ txLog' = s.txLog
        /\ rxLog' = s.rxLog
        /\ memWrites' = s.memWrites
        /\ fills' = s.fills
        /\ cbLog' = s.cbLog
        /\ handlerRuns' = s.handlerRuns
        /\ faults' = s.faults

\* A body is evaluated on the value of its argument: s \in {s0} binds s to
\* the state s0 denotes, so that a chain of calls evaluates each state once.
\* Only is the one element of a singleton.
Only(S) == CHOOSE x \in S : TRUE

(* --------------------------- 32-bit arithmetic ------------------------ *)

\* An unsigned (u32) value is held as its two's-complement representative in
\* -2^31 .. 2^31-1: 0xFFFFFFFF is -1, and a - b wraps as the machine's does
\* (0 - 1 = 0xFFFFFFFF).  x > 0 on a u32 is x # 0 here.
Sub32(a, b) == a - b

Dec32(a) == Sub32(a, 1)

\* a > b on two u32 values.
UGt(a, b) == IF (a >= 0) = (b >= 0) THEN a > b ELSE a < 0

\* a / 2 on a u32 value.
UHalf(a) == IF a >= 0 THEN a \div 2 ELSE ((a \div 2) + 1073741824) + 1073741824

(* ------------------------ register access layer ----------------------- *)

\* The level bits of the status register.
LevelBits(s) ==
    (IF Len(s.txFifo) = 0 THEN {"TXOW"} ELSE {})
    \cup (IF Len(s.rxFifo) > 0 THEN {"RXNEMPTY"} ELSE {})
    \cup (IF Len(s.rxFifo) >= s.depth THEN {"RXFULL"} ELSE {})

\* XSpiPs_ReadReg(XSPIPS_SR_OFFSET)
ReadSR(s) == s.sticky \cup LevelBits(s)

\* XSpiPs_WriteReg(XSPIPS_SR_OFFSET, m): write one to clear.
WriteSR(s, m) == [s EXCEPT !.sticky = @ \ m]

\* XSpiPs_WriteReg(XSPIPS_IER_OFFSET, m)
WriteIER(s, m) == [s EXCEPT !.imr = @ \cup m]

\* XSpiPs_WriteReg(XSPIPS_IDR_OFFSET, m)
WriteIDR(s, m) == [s EXCEPT !.imr = @ \ m]

\* XSpiPs_Enable: ER = XSPIPS_ER_ENABLE_MASK.
XSpiPs_Enable(s) == [s EXCEPT !.enabled = TRUE]

\* XSpiPs_Disable: ER = 0.  The disabled device drops what its transmit FIFO
\* still held ("disabling the device and resetting the FIFOs").
XSpiPs_Disable(s0) ==
    Only({
        [s EXCEPT !.enabled = FALSE, !.txFifo = <<>>, !.manStart = FALSE]
    : s \in {s0}})

XSpiPs_IsManualChipSelect(s) == s.cr.ssforce

XSpiPs_IsManualStart(s) == s.cr.manstrten

XSpiPs_IsMaster(s) == s.cr.mstren

\* The byte at a buffer cursor.
Deref(s, p) == s.mem[p.buf][p.off + 1]

PtrInc(p) == [p EXCEPT !.off = @ + 1]

\* XSpiPs_SendByte: a write of TXD pushes unless the transmit FIFO is full.
XSpiPs_SendByte(s0, b) ==
    Only({
        [s EXCEPT !.txFifo = IF Len(@) < s.depth THEN Append(@, b) ELSE @,
                  !.txLog = Append(@, b)]
    : s \in {s0}})

\* XSpiPs_RecvByte: a read of RXD pops; RecvValue is the byte it returns.
\* A read of the empty receive FIFO returns 0, which no data byte of the
\* model is.
RecvValue(s) == IF Len(s.rxFifo) > 0 THEN Head(s.rxFifo) ELSE 0

XSpiPs_RecvByte(s0) ==
    Only({
        [s EXCEPT !.rxFifo = IF Len(@) > 0 THEN Tail(@) ELSE @,
                  !.rxLog = Append(@, RecvValue(s))]
    : s \in {s0}})

(* ------------------------- bit fields of CR --------------------------- *)

Bit(x, i) == (x \div (2 ^ i)) % 2

\* x | y on the four bits of the slave select field.
Or4(x, y) ==
    LET b(i) == IF Bit(x, i) = 1 \/ Bit(y, i) = 1 THEN 2 ^ i ELSE 0
    IN  b(0) + b(1) + b(2) + b(3)

\* The slave select field of a register value that holds only that field.
SsField(v) == (v \div (2 ^ XSPIPS_CR_SSCTRL_SHIFT)) % (XSPIPS_CR_SSCTRL_MAXIMUM + 1)

\* ConfigReg &= ~XSPIPS_CR_SSCTRL_MASK; ConfigReg |= SlaveSelect; write CR.
ApplySlaveSelect(s0) ==
    Only({
        [s EXCEPT !.cr.ss = Or4(0, SsField(s.slaveSelect))]
    : s \in {s0}})

\* ConfigReg |= XSPIPS_CR_SSCTRL_MASK; write CR.
DeassertSlaveSelect(s0) ==
    Only({
        [s EXCEPT !.cr.ss = XSPIPS_CR_SSCTRL_MAXIMUM]
    : s \in {s0}})

\* The start command never written.
ManualStartCmd_Never(s) == s

\* ConfigReg |= XSPIPS_CR_MANSTRT_MASK; write CR: the start command.
ManualStartCmd(s0) ==
    Only({
        IF XSpiPs_IsManualStart(s) /\ XSpiPs_IsMaster(s)
        THEN [s EXCEPT !.manStart = TRUE]
        ELSE s
    : s \in {s0}})

(* ----------------------------- FIFO pump ------------------------------ *)

\* The fill loop with its depth test off by one (TransCount <= depth).
RECURSIVE FillLoop_OneTooMany(_)
FillLoop_OneTooMany(s0) ==
    Only({
        IF s.remainingBytes # 0 /\ s.transCount <= s.depth
        THEN FillLoop_OneTooMany([XSpiPs_SendByte(s, Deref(s, s.sendBufferPtr)) EXCEPT
                                     !.sendBufferPtr = PtrInc(@),
                                     !.remainingBytes = Dec32(@),
                                     !.transCount = @ + 1])
        ELSE s
    : s \in {s0}})

\* while ((RemainingBytes > 0) && (TransCount < XSPIPS_FIFO_DEPTH))
\*     { SendByte(*SendBufferPtr); SendBufferPtr++; RemainingBytes--; TransCount++ }
\* The result carries the local TransCount in transCount.
RECURSIVE FillLoop(_)
FillLoop(s0) ==
    Only({
        IF s.remainingBytes # 0 /\ s.transCount < s.depth
        THEN FillLoop([XSpiPs_SendByte(s, Deref(s, s.sendBufferPtr)) EXCEPT
                          !.sendBufferPtr = PtrInc(@),
                          !.remainingBytes = Dec32(@),
                          !.transCount = @ + 1])
        ELSE s
    : s \in {s0}})

\* The receive loop's body reading RXD only when there is a receive buffer.
DrainOne_NoPopWithoutBuffer(s0) ==
    Only({
        IF s.recvBufferPtr # NULL
        THEN LET v == RecvValue(s)
                 t == XSpiPs_RecvByte(s)
             IN  [t EXCEPT !.mem[t.recvBufferPtr.buf][t.recvBufferPtr.off + 1] = v,
                           !.recvBufferPtr = PtrInc(@),
                           !.memWrites = @ + 1,
                           !.requestedBytes = Dec32(@), !.transCount = @ - 1]
        ELSE [s EXCEPT !.requestedBytes = Dec32(@), !.transCount = @ - 1]
    : s \in {s0}})

\* TempData = RecvByte(); if (RecvBufferPtr != NULL) *RecvBufferPtr++ = TempData;
RecvStore(s0) ==
    Only({
        LET v == RecvValue(s)
            t == XSpiPs_RecvByte(s)
        IN  IF t.recvBufferPtr # NULL
            THEN [t EXCEPT !.mem[t.recvBufferPtr.buf][t.recvBufferPtr.off + 1] = v,
                           !.recvBufferPtr = PtrInc(@),
                           !.memWrites = @ + 1]
            ELSE t
    : s \in {s0}})

\* One pass of the receive loop's body: the byte read and stored, then
\*     RequestedBytes--; --TransCount;
DrainOne(s0) ==
    Only({
        [RecvStore(s) EXCEPT !.requestedBytes = Dec32(@), !.transCount = @ - 1]
    : s \in {s0}})

\* The receive loop running until RequestedBytes is 0, whatever TransCount.
RECURSIVE DrainLoop_AllRequested(_)
DrainLoop_AllRequested(s0) ==
    Only({
        IF s.requestedBytes # 0
        THEN DrainLoop_AllRequested(DrainOne(s))
        ELSE [s EXCEPT !.transCount = 0]
    : s \in {s0}})

\* The receive loop stopping one byte short (while (TransCount > 1)).
RECURSIVE DrainLoop_OneShort(_)
DrainLoop_OneShort(s0) ==
    Only({
        IF s.transCount > 1 THEN DrainLoop_OneShort(DrainOne(s)) ELSE s
    : s \in {s0}})

\* while (TransCount) { ... }
RECURSIVE DrainLoop(_)
DrainLoop(s0) ==
    Only({
        IF s.transCount # 0 THEN DrainLoop(DrainOne(s)) ELSE s
    : s \in {s0}})

(* --------------------------- status callback -------------------------- *)

\* SpiPtr->StatusHandler(StatusRef, event, count): the upper layer is given
\* the event and the count, and sees the instance and the device as they are
\* at the call.
StatusHandler(s0, event, count) ==
    Only({
        [s EXCEPT !.cbLog = Append(@, [event |-> event, count |-> count,
                                       isBusy |-> s.isBusy,
                                       requestedBytes |-> s.requestedBytes,
                                       remainingBytes |-> s.remainingBytes,
                                       enabled |-> s.enabled,
                                       imr |-> s.imr,
                                       ss |-> s.cr.ss,
                                       sticky |-> s.sticky,
                                       rxFifo |-> s.rxFifo])]
    : s \in {s0}})

(* ------------------------------ XSpiPs_Abort -------------------------- *)

\* XSpiPs_Abort without the loop that empties the receive FIFO.
DropRx_Nothing(s) == s

\* while (SR & RXNEMPTY) (void) RecvByte();
DropRx(s) == [s EXCEPT !.rxFifo = <<>>]

\* XSpiPs_Disable; the receive FIFO emptied; SR = MODF_MASK; RemainingBytes =
\* RequestedBytes = 0; IsBusy = FALSE.
AbortBody(s0) ==
    Only({
        LET a == XSpiPs_Disable(s)
            b == DropRx(a)
            c == WriteSR(b, XSPIPS_IXR_MODF_MASK)
        IN  [c EXCEPT !.remainingBytes = 0, !.requestedBytes = 0, !.isBusy = FALSE]
    : s \in {s0}})

(* ----------------------------- XSpiPs_Reset --------------------------- *)

ResetBody(s0) ==
    Only({
        [AbortBody(s) EXCEPT !.cr = XSPIPS_CR_RESET_STATE]
    : s \in {s0}})

(* ---------------------- start of a transfer (both) -------------------- *)

\* IsBusy = TRUE; the buffer pointers; RequestedBytes = RemainingBytes =
\* ByteCount; the slave select if manual chip select; XSpiPs_Enable.
\* recv is "null", "A" (the send buffer itself) or "B".
Claim(s0, recv, n, mode) ==
    Only({
        LET a == [s EXCEPT !.isBusy = TRUE,
                           !.sendBufferPtr = [buf |-> "A", off |-> 0],
                           !.recvBufferPtr = IF recv = "null" THEN NULL
                                             ELSE [buf |-> recv, off |-> 0],
                           !.requestedBytes = n,
                           !.remainingBytes = n,
                           \* the caller's buffers and the observation start afresh
                           !.mem = [A |-> Pattern(n), B |-> Zeros(n)],
                           !.curMode = mode, !.curN = n, !.curRecv = recv,
                           !.txLog = <<>>, !.rxLog = <<>>,
                           !.memWrites = 0, !.fills = <<>>, !.cbLog = <<>>,
                           !.handlerRuns = 0]
            b == IF XSpiPs_IsManualChipSelect(a) THEN ApplySlaveSelect(a) ELSE a
        IN  XSpiPs_Enable(b)
    : s \in {s0}})

\* A fill pass from TransCount = 0, noted in fills.
FillPass(s0) ==
    Only({
        LET f == FillLoop([s EXCEPT !.transCount = 0])
        IN  [f EXCEPT !.fills = Append(@, f.transCount)]
    : s \in {s0}})

(* ---------------------------- XSpiPs_Transfer ------------------------- *)

\* XSpiPs_Transfer without its busy check.
TransferBody_NoBusyCheck(s0, recv, n) ==
    Only({
        LET a == Claim(s, recv, n, "intr")
            b == WriteSR(a, XSPIPS_IXR_WR_TO_CLR_MASK)
            c == FillPass(b)
            d == WriteIER(c, XSPIPS_IXR_DFLT_MASK)
            e == ManualStartCmd(d)
        IN  [e EXCEPT !.transCount = 0,
                      !.ret = "XST_SUCCESS"]
    : s \in {s0}})

\* XSpiPs_Transfer without its write to the interrupt enable register.
TransferBody_NoUnmask(s0, recv, n) ==
    Only({
        IF s.isBusy
        THEN [s EXCEPT !.ret = "XST_DEVICE_BUSY"]
        ELSE LET a == Claim(s, recv, n, "intr")
                 b == WriteSR(a, XSPIPS_IXR_WR_TO_CLR_MASK)
                 c == FillPass(b)
                 e == ManualStartCmd(c)
             IN  [e EXCEPT !.transCount = 0,
                           !.ret = "XST_SUCCESS"]
    : s \in {s0}})

\* if (InstancePtr->IsBusy) return XST_DEVICE_BUSY; the claim; SR = the
\* write-to-clear bits; the fill loop; IER = DFLT_MASK; the start command.
TransferBody(s0, recv, n) ==
    Only({
        IF s.isBusy
        THEN [s EXCEPT !.ret = "XST_DEVICE_BUSY"]
        ELSE LET a == Claim(s, recv, n, "intr")
                 b == WriteSR(a, XSPIPS_IXR_WR_TO_CLR_MASK)
                 c == FillPass(b)
                 d == WriteIER(c, XSPIPS_IXR_DFLT_MASK)
                 e == ManualStartCmd(d)
             IN  [e EXCEPT !.transCount = 0,
                           !.ret = "XST_SUCCESS"]
    : s \in {s0}})

(* ------------------------ XSpiPs_InterruptHandler --------------------- *)

\* if (MODF == (IntrStatus & MODF)) { BytesDone = Requested - Remaining;
\*     XSpiPs_Abort; StatusHandler(XST_SPI_MODE_FAULT, BytesDone); return; }
ModeFaultBranch(s0) ==
    Only({
        LET BytesDone == Sub32(s.requestedBytes, s.remainingBytes)
        IN  StatusHandler(AbortBody(s), "XST_SPI_MODE_FAULT", BytesDone)
    : s \in {s0}})

\* The done path with the callback made before the device is put to rest.
TransferDone_CallbackFirst(s0) ==
    Only({
        LET a == StatusHandler(s, "XST_SPI_TRANSFER_DONE", s.requestedBytes)
            b == WriteIDR(a, XSPIPS_IXR_DFLT_MASK)
            c == IF XSpiPs_IsManualChipSelect(b) THEN DeassertSlaveSelect(b) ELSE b
            d == [c EXCEPT !.isBusy = FALSE]
        IN  XSpiPs_Disable(d)
    : s \in {s0}})

\* The transfer is done: IDR = DFLT_MASK, the slave select lines high if
\* manual chip select, IsBusy = FALSE, XSpiPs_Disable, then the callback
\* with SpiPtr->RequestedBytes.
TransferDone(s0) ==
    Only({
        LET a == WriteIDR(s, XSPIPS_IXR_DFLT_MASK)
            b == IF XSpiPs_IsManualChipSelect(a) THEN DeassertSlaveSelect(a) ELSE a
            c == [b EXCEPT !.isBusy = FALSE]
            d == XSpiPs_Disable(c)
        IN  StatusHandler(d, "XST_SPI_TRANSFER_DONE", d.requestedBytes)
    : s \in {s0}})

\* The continue path without its write to the interrupt enable register.
TransferContinue_NoUnmask(s0) ==
    Only({
        ManualStartCmd(s)
    : s \in {s0}})

\* More to do: IER = TXOW_MASK and the start command if manual start.
TransferContinue(s0) ==
    Only({
        ManualStartCmd(WriteIER(s, XSPIPS_IXR_TXOW_MASK))
    : s \in {s0}})

\* The transmit-ready branch with TransCount = RequestedBytes.
TxowBranch_DrainRequested(s0, IntrStatus) ==
    Only({
        IF "TXOW" \in IntrStatus
        THEN LET a == DrainLoop([s EXCEPT !.transCount = s.requestedBytes])
                 b == FillLoop(a)
                 c == IF b.transCount # 0 THEN [b EXCEPT !.fills = Append(@, b.transCount)] ELSE b
             IN  IF c.remainingBytes = 0 /\ c.requestedBytes = 0
                 THEN TransferDone(c)
                 ELSE TransferContinue(c)
        ELSE s
    : s \in {s0}})

\* if (IntrStatus & TXOW) { TransCount = Requested - Remaining; the receive
\*     loop; the fill loop; done or continue }
TxowBranch(s0, IntrStatus) ==
    Only({
        IF "TXOW" \in IntrStatus
        THEN LET a == DrainLoop([s EXCEPT !.transCount = Sub32(s.requestedBytes, s.remainingBytes)])
                 b == FillLoop(a)
                 c == IF b.transCount # 0 THEN [b EXCEPT !.fills = Append(@, b.transCount)] ELSE b
             IN  IF c.remainingBytes = 0 /\ c.requestedBytes = 0
                 THEN TransferDone(c)
                 ELSE TransferContinue(c)
        ELSE s
    : s \in {s0}})

\* if (IntrStatus & RXOVR) / if (IntrStatus & TXUF): BytesDone, IsBusy =
\* FALSE, the slave select lines high if manual chip select, the callback.
FaultBranch(s0, IntrStatus, flag, event) ==
    Only({
        IF flag \in IntrStatus
        THEN LET BytesDone == Sub32(s.requestedBytes, s.remainingBytes)
                 a == [s EXCEPT !.isBusy = FALSE]
                 b == IF XSpiPs_IsManualChipSelect(a) THEN DeassertSlaveSelect(a) ELSE a
             IN  StatusHandler(b, event, BytesDone)
        ELSE s
    : s \in {s0}})

\* The handler's first three statements: read SR, write the latched
\* write-to-clear bits back, IDR = TXOW_MASK.
HandlerEntry(s0) ==
    Only({
        WriteIDR(WriteSR(s, ReadSR(s) \cap XSPIPS_IXR_WR_TO_CLR_MASK), XSPIPS_IXR_TXOW_MASK)
    : s \in {s0}})

\* The observation of an invocation: the callbacks of this invocation start
\* afresh, and the invocations of the current transfer are counted while the
\* bus has raised no fault, up to one more than a transfer of MaxBytes bytes
\* takes.
Invoked(s0) ==
    Only({
        [s EXCEPT !.cbLog = <<>>,
                  !.handlerRuns = IF s.faults # 0 THEN 0
                                  ELSE IF @ <= MaxBytes THEN @ + 1 ELSE @]
    : s \in {s0}})

\* The handler looking at transmit underrun before receive overrun.
HandlerBody_UnderrunFirst(s0) ==
    Only({
        LET IntrStatus == ReadSR(s)
            a == Invoked(HandlerEntry(s))
            r == IF XSPIPS_IXR_MODF_MASK = (IntrStatus \cap XSPIPS_IXR_MODF_MASK)
                 THEN ModeFaultBranch(a)
                 ELSE FaultBranch(
                          FaultBranch(TxowBranch(a, IntrStatus),
                                      IntrStatus, "TXUF", "XST_SPI_TRANSMIT_UNDERRUN"),
                          IntrStatus, "RXOVR", "XST_SPI_RECEIVE_OVERRUN")
        IN  [r EXCEPT !.transCount = s.transCount]
    : s \in {s0}})

\* The handler going on to the other flags after a mode fault.
HandlerBody_NoReturn(s0) ==
    Only({
        LET IntrStatus == ReadSR(s)
            a == Invoked(HandlerEntry(s))
            b == IF XSPIPS_IXR_MODF_MASK = (IntrStatus \cap XSPIPS_IXR_MODF_MASK)
                 THEN ModeFaultBranch(a)
                 ELSE a
            r == FaultBranch(
                     FaultBranch(TxowBranch(b, IntrStatus),
                                 IntrStatus, "RXOVR", "XST_SPI_RECEIVE_OVERRUN"),
                     IntrStatus, "TXUF", "XST_SPI_TRANSMIT_UNDERRUN")
        IN  [r EXCEPT !.transCount = s.transCount]
    : s \in {s0}})

\* The handler reading the status register again after its entry, instead of
\* using the value it latched.
HandlerBody_Reread(s0) ==
    Only({
        LET a == Invoked(HandlerEntry(s))
            IntrStatus == ReadSR(a)
            r == IF XSPIPS_IXR_MODF_MASK = (IntrStatus \cap XSPIPS_IXR_MODF_MASK)
                 THEN ModeFaultBranch(a)
                 ELSE FaultBranch(
                          FaultBranch(TxowBranch(a, IntrStatus),
                                      IntrStatus, "RXOVR", "XST_SPI_RECEIVE_OVERRUN"),
                          IntrStatus, "TXUF", "XST_SPI_TRANSMIT_UNDERRUN")
        IN  [r EXCEPT !.transCount = s.transCount]
    : s \in {s0}})

\* XSpiPs_InterruptHandler: the entry, then the mode fault branch and return,
\* or the transmit-ready, receive overrun and transmit underrun branches.
HandlerBody(s0) ==
    Only({
        LET IntrStatus == ReadSR(s)
            a == Invoked(HandlerEntry(s))
            r == IF XSPIPS_IXR_MODF_MASK = (IntrStatus \cap XSPIPS_IXR_MODF_MASK)
                 THEN ModeFaultBranch(a)
                 ELSE FaultBranch(
                          FaultBranch(TxowBranch(a, IntrStatus),
                                      IntrStatus, "RXOVR", "XST_SPI_RECEIVE_OVERRUN"),
                          IntrStatus, "TXUF", "XST_SPI_TRANSMIT_UNDERRUN")
        IN  \* TransCount is the handler's own local
            [r EXCEPT !.transCount = s.transCount]
    : s \in {s0}})

(* ------------------------- XSpiPs_SetStatusHandler -------------------- *)

\* InstancePtr->StatusHandler = FuncPtr; InstancePtr->StatusRef = CallBackRef.
SetStatusHandlerBody(s, FuncPtr) == [s EXCEPT !.statusHandler = FuncPtr, !.ret = "void"]

(* -------------------------- XSpiPs_SetSlaveSelect --------------------- *)

\* ((~(1 << SlaveSel)) & XSPIPS_CR_SSCTRL_MAXIMUM) << XSPIPS_CR_SSCTRL_SHIFT
EncodeSlaveSelect(SlaveSel) ==
    LET one == 2 ^ SlaveSel
        low == one % (XSPIPS_CR_SSCTRL_MAXIMUM + 1)
    IN  (XSPIPS_CR_SSCTRL_MAXIMUM - low) * (2 ^ XSPIPS_CR_SSCTRL_SHIFT)

\* XSpiPs_SetSlaveSelect without its busy check.
SetSlaveSelectBody_NoBusyCheck(s0, SlaveSel) ==
    Only({
        LET v == EncodeSlaveSelect(SlaveSel)
        IN  [s EXCEPT !.slaveSelect = v,
                      !.cr.ss = Or4(@, SsField(v)),
                      !.ret = "XST_SUCCESS"]
    : s \in {s0}})

\* if (IsBusy) return XST_DEVICE_BUSY; SlaveSelect = the encoding;
\* ConfigReg = CR; ConfigReg |= SlaveSelect; CR = ConfigReg.
SetSlaveSelectBody(s0, SlaveSel) ==
    Only({
        IF s.isBusy
        THEN [s EXCEPT !.ret = "XST_DEVICE_BUSY"]
        ELSE LET v == EncodeSlaveSelect(SlaveSel)
             IN  [s EXCEPT !.slaveSelect = v,
                           \* ConfigReg |= InstancePtr->SlaveSelect
                           !.cr.ss = Or4(@, SsField(v)),
                           !.ret = "XST_SUCCESS"]
    : s \in {s0}})

(* -------------------------- XSpiPs_GetSlaveSelect --------------------- *)

\* ~x on a u32.
Not32(x) == (0 - 1) - x

\* ConfigReg = SlaveSelect & MASK, >> SHIFT, & MAXIMUM;
\* if ((~ConfigReg) > 0x4) SlaveSel = 0xF; else SlaveSel = (~ConfigReg)/2;
GetSlaveSelectValue(cached) ==
    LET ConfigReg == SsField(cached)
    IN  IF UGt(Not32(ConfigReg), 4) THEN 15 ELSE UHalf(Not32(ConfigReg)) % 256

(* ------------------------- XSpiPs_PolledTransfer ---------------------- *)

\* Up to the status poll of the first pass.
PolledEntryBody(s0, recv, n) ==
    Only({
        IF s.isBusy
        THEN [s EXCEPT !.ret = "XST_DEVICE_BUSY"]
        ELSE LET a == Claim(s, recv, n, "polled")
                 b == ManualStartCmd(FillPass(a))
             IN  [b EXCEPT !.pc = "polled_wait",
                           !.ret = "running"]
    : s \in {s0}})

\* The exit of the polled transfer without XSpiPs_Disable.
PolledExit_NoDisable(s0) ==
    Only({
        LET a == IF XSpiPs_IsManualChipSelect(s) THEN DeassertSlaveSelect(s) ELSE s
            b == [a EXCEPT !.isBusy = FALSE]
        IN  [b EXCEPT !.pc = "idle", !.transCount = 0,
                      !.ret = "XST_SUCCESS"]
    : s \in {s0}})

\* After the loop: the slave select lines high if manual chip select,
\* IsBusy = FALSE, XSpiPs_Disable, return XST_SUCCESS.
PolledExit(s0) ==
    Only({
        LET a == IF XSpiPs_IsManualChipSelect(s) THEN DeassertSlaveSelect(s) ELSE s
            b == [a EXCEPT !.isBusy = FALSE]
            c == XSpiPs_Disable(b)
        IN  [c EXCEPT !.pc = "idle", !.transCount = 0,
                      !.ret = "XST_SUCCESS"]
    : s \in {s0}})

\* From a status read with TXOW set: the receive loop, then the loop test and
\* either the next pass up to its status poll or the exit.
PolledPassBody(s0) ==
    Only({
        LET a == DrainLoop(s)
        IN  IF a.remainingBytes # 0 \/ a.requestedBytes # 0
            THEN ManualStartCmd(FillPass(a))
            ELSE PolledExit(a)
    : s \in {s0}})

(* ------------------------- XSpiPs_CfgInitialize ----------------------- *)

\* XSpiPs_CfgInitialize without its busy check.
CfgInitializeBody_NoBusyCheck(s0, EffectiveAddr) ==
    Only({
        LET a == [s EXCEPT !.isBusy = FALSE,
                           !.baseAddress = EffectiveAddr,
                           !.statusHandler = "StubStatusHandler",
                           !.isReady = TRUE,
                           !.sendBufferPtr = NULL,
                           !.recvBufferPtr = NULL,
                           !.requestedBytes = 0,
                           !.remainingBytes = 0]
        IN  [ResetBody(a) EXCEPT !.ret = "XST_SUCCESS"]
    : s \in {s0}})

\* if (IsBusy == TRUE) return XST_DEVICE_IS_STARTED; the default values;
\* XSpiPs_Reset; return XST_SUCCESS.
CfgInitializeBody(s0, EffectiveAddr) ==
    Only({
        IF s.isBusy = TRUE
        THEN [s EXCEPT !.ret = "XST_DEVICE_IS_STARTED"]
        ELSE LET a == [s EXCEPT !.isBusy = FALSE,
                                !.baseAddress = EffectiveAddr,
                                !.statusHandler = "StubStatusHandler",
                                !.isReady = TRUE,
                                !.sendBufferPtr = NULL,
                                !.recvBufferPtr = NULL,
                                !.requestedBytes = 0,
                                !.remainingBytes = 0]
             IN  [ResetBody(a) EXCEPT
                     !.ret = "XST_SUCCESS"]
    : s \in {s0}})

(* ------------------------------ the device ---------------------------- *)

\* What the bus answers to a byte clocked out.
BusAnswer(s, b) == IF s.bus = "loopback" THEN b ELSE b + 100

\* The device clocks: in master mode with manual start only after a start
\* command.
CanClock(s) ==
    /\ s.enabled
    /\ s.txFifo # <<>>
    /\ (s.cr.mstren /\ s.cr.manstrten) => s.manStart

\* One byte leaves the transmit FIFO and its answer enters the receive FIFO;
\* an answer that finds the receive FIFO full is lost and raises RXOVR.
ClockByte(s0) ==
    Only({
        LET b == Head(s.txFifo)
            a == [s EXCEPT !.txFifo = Tail(@)]
            c == IF Len(a.rxFifo) < a.depth
                 THEN [a EXCEPT !.rxFifo = Append(@, BusAnswer(a, b))]
                 ELSE [a EXCEPT !.sticky = @ \cup {"RXOVR"}]
        IN  IF c.txFifo = <<>> THEN [c EXCEPT !.manStart = FALSE] ELSE c
    : s \in {s0}})

(* ------------------------------- actions ------------------------------ *)

\* The option bits of CR a caller configures before the first transfer.  The
\* driver and the device read the manual start enable and the master enable
\* only together (IsManualStart && IsMaster).
Options == [ssforce : BOOLEAN, manstrten : BOOLEAN, mstren : BOOLEAN]

ManualMasterOrNot == {o \in Options : o.manstrten = o.mstren}

\* The instance after XSpiPs_CfgInitialize on a zeroed XSpiPs and the choice
\* of the options, on a device of some depth behind some bus.
InitWith(O, D, B) ==
    /\ isBusy = FALSE
    /\ isReady = TRUE
    /\ statusHandler = "StubStatusHandler"
    /\ baseAddress = "XPAR_XSPIPS_0_BASEADDR"
    /\ sendBufferPtr = NULL
    /\ recvBufferPtr = NULL
    /\ requestedBytes = 0
    /\ remainingBytes = 0
    /\ slaveSelect = 0
    /\ \E o \in O :
           cr = [XSPIPS_CR_RESET_STATE EXCEPT !.ssforce = o.ssforce,
                                              !.manstrten = o.manstrten,
                                              !.mstren = o.mstren]
    /\ enabled = FALSE
    /\ sticky = {}
    /\ imr = {}
    /\ txFifo = <<>>
    /\ rxFifo = <<>>
    /\ manStart = FALSE
    /\ depth \in D
    /\ bus \in B
    /\ mem = [A |-> <<>>, B |-> <<>>]
    /\ pc = "idle"
    /\ transCount = 0
    /\ curMode = "none"
    /\ curN = 0
    /\ curRecv = "null"
    /\ txLog = <<>>
    /\ rxLog = <<>>
    /\ memWrites = 0
    /\ fills = <<>>
    /\ cbLog = <<>>
    /\ handlerRuns = 0
    /\ faults = 0

\* XSpiPs_Transfer(InstancePtr, SendBufPtr, RecvBufPtr, ByteCount) with the
\* receive buffer drawn from R.
XSpiPs_Transfer(R) ==
    /\ pc = "idle"
    /\ isReady
    /\ \E recv \in R, n \in 1..MaxBytes : Commit(TransferBody(Cur, recv, n))

\* The call of XSpiPs_PolledTransfer, up to its first status poll.
XSpiPs_PolledTransfer(R) ==
    /\ pc = "idle"
    /\ isReady
    /\ \E recv \in R, n \in 1..MaxBytes : Commit(PolledEntryBody(Cur, recv, n))

\* The status poll sees TXOW: the rest of the pass, and the next or the exit.
PolledPass ==
    /\ pc = "polled_wait"
    /\ "TXOW" \in ReadSR(Cur)
    /\ Commit(PolledPassBody(Cur))

XSpiPs_SetSlaveSelect(S) ==
    /\ pc = "idle"
    /\ isReady
    /\ \E sel \in S : Commit(SetSlaveSelectBody(Cur, sel))

XSpiPs_GetSlaveSelect ==
    /\ pc = "idle"
    /\ isReady
    /\ Commit([Cur EXCEPT !.ret = GetSlaveSelectValue(slaveSelect)])

XSpiPs_SetStatusHandler ==
    /\ pc = "idle"
    /\ isReady
    /\ Commit(SetStatusHandlerBody(Cur, "UserStatusHandler"))

\* XSpiPs_SetOptions: refused while a transfer is in progress, else the
\* option bits of CR are written.
XSpiPs_SetOptions ==
    /\ pc = "idle"
    /\ isReady
    /\ ~isBusy
    /\ \E o \in ManualMasterOrNot :
           Commit([Cur EXCEPT !.cr.ssforce = o.ssforce,
                              !.cr.manstrten = o.manstrten,
                              !.cr.mstren = o.mstren])

XSpiPs_Abort ==
    /\ pc = "idle"
    /\ Commit([AbortBody(Cur) EXCEPT !.ret = "void"])

XSpiPs_Reset ==
    /\ pc = "idle"
    /\ isReady
    /\ Commit([ResetBody(Cur) EXCEPT !.ret = "void"])

XSpiPs_CfgInitialize(E) ==
    /\ pc = "idle"
    /\ \E EffectiveAddr \in E : Commit(CfgInitializeBody(Cur, EffectiveAddr))

\* The interrupt is raised while a status bit is set and unmasked.
IrqPending(s) == (ReadSR(s) \cap s.imr) # {}

XSpiPs_InterruptHandler ==
    /\ pc = "idle"
    /\ isReady
    /\ IrqPending(Cur)
    /\ Commit(HandlerBody(Cur))

HwClock ==
    /\ CanClock(Cur)
    /\ Commit(ClockByte(Cur))

\* A fault event: the bus raises some of MODF, RXOVR, TXUF at once.
HwFault ==
    /\ enabled
    /\ faults < MaxFaults
    /\ \E F \in (SUBSET XSPIPS_IXR_WR_TO_CLR_MASK) \ {{}} :
           Commit([Cur EXCEPT !.sticky = @ \cup F, !.faults = @ + 1])

(* --------------------------- specifications --------------------------- *)

\* The driver under any sequence of transfers and aborts, with the handler
\* invoked on every pending interrupt and a bus that raises faults.
Init == InitWith(ManualMasterOrNot, 1..MaxDepth, {"loopback"})

Next ==
    \/ XSpiPs_Transfer(RecvOwn)
    \/ XSpiPs_PolledTransfer(RecvOwn)
    \/ PolledPass
    \/ XSpiPs_Abort
    \/ XSpiPs_Reset
    \/ XSpiPs_CfgInitialize(BaseAddr0)
    \/ XSpiPs_InterruptHandler
    \/ HwClock
    \/ HwFault

Spec == Init /\ [][Next]_vars

\* The data path: every receive buffer choice (none, the send buffer itself,
\* a buffer of its own), a bus that loops back and one that does not, and no
\* fault.
InitData == InitWith(ManualMasterOrNot, 1..MaxDepth, {"loopback", "offset"})

NextData ==
    \/ XSpiPs_Transfer(RecvAll)
    \/ XSpiPs_PolledTransfer(RecvAll)
    \/ PolledPass
    \/ XSpiPs_Abort
    \/ XSpiPs_InterruptHandler
    \/ HwClock

SpecData == InitData /\ [][NextData]_vars

\* Configuration: a zeroed XSpiPs instance and a device out of hardware
\* reset; the instance is initialized, configured, used for transfers with a
\* buffer of its own, aborted and reset.
InitCfg ==
    /\ isBusy = FALSE
    /\ isReady = FALSE
    /\ statusHandler = "NULL"
    /\ baseAddress = "NULL"
    /\ sendBufferPtr = NULL
    /\ recvBufferPtr = NULL
    /\ requestedBytes = 0
    /\ remainingBytes = 0
    /\ slaveSelect = 0
    /\ cr = XSPIPS_CR_RESET_STATE
    /\ enabled = FALSE
    /\ sticky = {}
    /\ imr = {}
    /\ txFifo = <<>>
    /\ rxFifo = <<>>
    /\ manStart = FALSE
    /\ depth \in 1..MaxDepth
    /\ bus = "loopback"
    /\ mem = [A |-> <<>>, B |-> <<>>]
    /\ pc = "idle"
    /\ transCount = 0
    /\ curMode = "none"
    /\ curN = 0
    /\ curRecv = "null"
    /\ txLog = <<>>
    /\ rxLog = <<>>
    /\ memWrites = 0
    /\ fills = <<>>
    /\ cbLog = <<>>
    /\ handlerRuns = 0
    /\ faults = 0

NextCfg ==
    \/ XSpiPs_CfgInitialize(BaseAddrs)
    \/ XSpiPs_SetStatusHandler
    \/ XSpiPs_SetOptions
    \/ XSpiPs_SetSlaveSelect(SlaveSels)
    \/ XSpiPs_GetSlaveSelect
    \/ XSpiPs_Transfer(RecvOwn)
    \/ XSpiPs_InterruptHandler
    \/ HwClock
    \/ XSpiPs_Abort
    \/ XSpiPs_Reset

SpecCfg == InitCfg /\ [][NextCfg]_vars

\* Progress: transfers in both modes on a bus that may raise faults, never
\* aborted.  The device clocks while it can, the caller's polling loop keeps
\* running, and the handler is invoked while an interrupt is pending.
NextLive ==
    \/ XSpiPs_Transfer(RecvOwn)
    \/ XSpiPs_PolledTransfer(RecvOwn)
    \/ PolledPass
    \/ XSpiPs_InterruptHandler
    \/ HwClock
    \/ HwFault

Fairness ==
    /\ WF_vars(HwClock)
    /\ WF_vars(PolledPass)
    /\ WF_vars(XSpiPs_InterruptHandler)

SpecLive == Init /\ [][NextLive]_vars /\ Fairness

(* ------------------ calls preempted by the handler -------------------- *)

\* XSpiPs_Transfer, XSpiPs_PolledTransfer and XSpiPs_Abort one statement at a
\* time: pc holds the source line of the call's next statement.  A read,
\* modify and write of one register is one step.
TransferPcs ==
    {"T335", "T340", "T341", "T343", "T344", "T349", "T364", "T369",
     "T376", "T378", "T380", "T381", "T389", "T396"}

PolledPcs ==
    {"P488", "P493", "P494", "P496", "P497", "P502", "P517", "P519",
     "P526", "P528", "P530", "P531", "P539", "P552", "P568", "P570",
     "P575", "P583", "P594", "P599"}

AbortPcs == {"A1057", "A1066", "A1070", "A1071", "A1072"}

\* A statement that reads past the send buffer or writes past the receive
\* buffer: what the program does from there on is not followed.
Stray(s) == [s EXCEPT !.pc = "stray"]

\* The cursor is on a byte of its buffer.
InBuffer(s, p) == p.off < Len(s.mem[p.buf])

\* The busy check of either transfer call; the caller's buffers and the
\* observation start afresh when the call is accepted.
CallEnter(s0, recv, n, mode, first) ==
    Only({
        IF s.isBusy
        THEN [s EXCEPT !.ret = "XST_DEVICE_BUSY"]
        ELSE [s EXCEPT !.mem = [A |-> Pattern(n), B |-> Zeros(n)],
                       !.curMode = mode, !.curN = n, !.curRecv = recv,
                       !.txLog = <<>>, !.rxLog = <<>>,
                       !.memWrites = 0, !.fills = <<>>, !.cbLog = <<>>,
                       !.handlerRuns = 0,
                       !.transCount = 0,
                       !.pc = first,
                       !.ret = "running"]
    : s \in {s0}})

\* The statement of XSpiPs_Transfer at pc.
TransferStep(s0) ==
    Only({
        CASE s.pc = "T335" -> [s EXCEPT !.isBusy = TRUE, !.pc = "T340"]
          [] s.pc = "T340" -> [s EXCEPT !.sendBufferPtr = [buf |-> "A", off |-> 0],
                                        !.pc = "T341"]
          [] s.pc = "T341" -> [s EXCEPT !.recvBufferPtr =
                                            IF s.curRecv = "null" THEN NULL
                                            ELSE [buf |-> s.curRecv, off |-> 0],
                                        !.pc = "T343"]
          [] s.pc = "T343" -> [s EXCEPT !.requestedBytes = s.curN, !.pc = "T344"]
          [] s.pc = "T344" -> [s EXCEPT !.remainingBytes = s.curN, !.pc = "T349"]
          [] s.pc = "T349" ->
                 [(IF XSpiPs_IsManualChipSelect(s) THEN ApplySlaveSelect(s) ELSE s)
                     EXCEPT !.pc = "T364"]
          [] s.pc = "T364" -> [XSpiPs_Enable(s) EXCEPT !.pc = "T369"]
          [] s.pc = "T369" ->
                 [WriteSR(s, XSPIPS_IXR_WR_TO_CLR_MASK) EXCEPT !.pc = "T376"]
          [] s.pc = "T376" ->
                 IF s.remainingBytes # 0 /\ s.transCount < s.depth
                 THEN [s EXCEPT !.pc = "T378"]
                 ELSE [s EXCEPT !.fills = IF s.transCount = 0 THEN @
                                         ELSE Append(@, s.transCount),
                               !.pc = "T389"]
          [] s.pc = "T378" ->
                 IF InBuffer(s, s.sendBufferPtr)
                 THEN [XSpiPs_SendByte(s, Deref(s, s.sendBufferPtr)) EXCEPT
                          !.pc = "T380"]
                 ELSE Stray(s)
          [] s.pc = "T380" -> [s EXCEPT !.sendBufferPtr = PtrInc(@), !.pc = "T381"]
          [] s.pc = "T381" -> [s EXCEPT !.remainingBytes = Dec32(@),
                                        !.transCount = @ + 1,
                                        !.pc = "T376"]
          [] s.pc = "T389" ->
                 [WriteIER(s, XSPIPS_IXR_DFLT_MASK) EXCEPT !.pc = "T396"]
          [] s.pc = "T396" ->
                 [ManualStartCmd(s) EXCEPT !.transCount = 0,
                                           !.pc = "idle",
                                           !.ret = "XST_SUCCESS"]
    : s \in {s0}})

\* The statement of XSpiPs_PolledTransfer at pc; the status poll at P552 is
\* left only with TXOW set.
PolledStep(s0) ==
    Only({
        CASE s.pc = "P488" -> [s EXCEPT !.isBusy = TRUE, !.pc = "P493"]
          [] s.pc = "P493" -> [s EXCEPT !.sendBufferPtr = [buf |-> "A", off |-> 0],
                                        !.pc = "P494"]
          [] s.pc = "P494" -> [s EXCEPT !.recvBufferPtr =
                                            IF s.curRecv = "null" THEN NULL
                                            ELSE [buf |-> s.curRecv, off |-> 0],
                                        !.pc = "P496"]
          [] s.pc = "P496" -> [s EXCEPT !.requestedBytes = s.curN, !.pc = "P497"]
          [] s.pc = "P497" -> [s EXCEPT !.remainingBytes = s.curN, !.pc = "P502"]
          [] s.pc = "P502" ->
                 [(IF XSpiPs_IsManualChipSelect(s) THEN ApplySlaveSelect(s) ELSE s)
                     EXCEPT !.pc = "P517"]
          [] s.pc = "P517" -> [XSpiPs_Enable(s) EXCEPT !.pc = "P519"]
          [] s.pc = "P519" ->
                 IF s.remainingBytes # 0 \/ s.requestedBytes # 0
                 THEN [s EXCEPT !.transCount = 0, !.pc = "P526"]
                 ELSE [s EXCEPT !.pc = "P583"]
          [] s.pc = "P526" ->
                 IF s.remainingBytes # 0 /\ s.transCount < s.depth
                 THEN [s EXCEPT !.pc = "P528"]
                 ELSE [s EXCEPT !.fills = IF s.transCount = 0 THEN @
                                         ELSE Append(@, s.transCount),
                               !.pc = "P539"]
          [] s.pc = "P528" ->
                 IF InBuffer(s, s.sendBufferPtr)
                 THEN [XSpiPs_SendByte(s, Deref(s, s.sendBufferPtr)) EXCEPT
                          !.pc = "P530"]
                 ELSE Stray(s)
          [] s.pc = "P530" -> [s EXCEPT !.sendBufferPtr = PtrInc(@), !.pc = "P531"]
          [] s.pc = "P531" -> [s EXCEPT !.remainingBytes = Dec32(@),
                                        !.transCount = @ + 1,
                                        !.pc = "P526"]
          [] s.pc = "P539" -> [ManualStartCmd(s) EXCEPT !.pc = "P552"]
          [] s.pc = "P552" -> [s EXCEPT !.pc = "P568"]
          [] s.pc = "P568" ->
                 IF s.transCount # 0
                 THEN [s EXCEPT !.pc = "P570"]
                 ELSE [s EXCEPT !.pc = "P519"]
          [] s.pc = "P570" ->
                 IF s.recvBufferPtr = NULL \/ InBuffer(s, s.recvBufferPtr)
                 THEN [RecvStore(s) EXCEPT !.pc = "P575"]
                 ELSE Stray(s)
          [] s.pc = "P575" -> [s EXCEPT !.requestedBytes = Dec32(@),
                                        !.transCount = @ - 1,
                                        !.pc = "P568"]
          [] s.pc = "P583" ->
                 [(IF XSpiPs_IsManualChipSelect(s) THEN DeassertSlaveSelect(s) ELSE s)
                     EXCEPT !.pc = "P594"]
          [] s.pc = "P594" -> [s EXCEPT !.isBusy = FALSE, !.pc = "P599"]
          [] s.pc = "P599" ->
                 [XSpiPs_Disable(s) EXCEPT !.transCount = 0,
                                           !.pc = "idle",
                                           !.ret = "XST_SUCCESS"]
    : s \in {s0}})

\* The statement of XSpiPs_Abort at pc, after its XSpiPs_Disable.
AbortStep(s0) ==
    Only({
        CASE s.pc = "A1057" ->
                 IF "RXNEMPTY" \in ReadSR(s)
                 THEN XSpiPs_RecvByte(s)
                 ELSE [s EXCEPT !.pc = "A1066"]
          [] s.pc = "A1066" -> [WriteSR(s, XSPIPS_IXR_MODF_MASK) EXCEPT !.pc = "A1070"]
          [] s.pc = "A1070" -> [s EXCEPT !.remainingBytes = 0, !.pc = "A1071"]
          [] s.pc = "A1071" -> [s EXCEPT !.requestedBytes = 0, !.pc = "A1072"]
          [] s.pc = "A1072" -> [s EXCEPT !.isBusy = FALSE,
                                         !.pc = "idle",
                                         !.ret = "void"]
    : s \in {s0}})

\* An invocation of the handler from s would run its receive loop past the
\* receive buffer (TransCount = RequestedBytes - RemainingBytes wrapped, or
\* more than the buffer has left) or its fill loop past the send buffer.
HandlerStrays(s) ==
    LET IntrStatus == ReadSR(s)
        TransCount == Sub32(s.requestedBytes, s.remainingBytes)
        Fill == IF UGt(s.remainingBytes, s.depth) THEN s.depth ELSE s.remainingBytes
    IN  /\ XSPIPS_IXR_MODF_MASK # (IntrStatus \cap XSPIPS_IXR_MODF_MASK)
        /\ (IntrStatus \cap XSPIPS_IXR_TXOW_MASK) # {}
        /\ \/ TransCount < 0
           \/ /\ s.recvBufferPtr # NULL
              /\ s.recvBufferPtr.off + TransCount > Len(s.mem[s.recvBufferPtr.buf])
           \/ /\ Fill > 0
              /\ \/ s.sendBufferPtr = NULL
                 \/ s.sendBufferPtr.off + Fill > Len(s.mem[s.sendBufferPtr.buf])

\* RequestedBytes >= RemainingBytes, as unsigned numbers.
CountersOrdered(s) == ~UGt(s.remainingBytes, s.requestedBytes)

\* The counters and cursors of s are consistent: no stray access, remaining
\* not above requested, the writes of TXD are the send buffer's bytes, each
\* once and in order, the FIFOs hold no more than the depth, and where the
\* handler can see them (no call in progress, or the interrupt raised) the
\* bytes in flight, queued and not yet read back, are RequestedBytes -
\* RemainingBytes and no more than the depth.
InFlight(s) == Sub32(s.requestedBytes, s.remainingBytes)

Consistent(s) ==
    /\ s.pc # "stray"
    /\ CountersOrdered(s)
    /\ Len(s.txLog) <= s.curN
    /\ s.txLog = Pattern(Len(s.txLog))
    /\ Len(s.txFifo) + Len(s.rxFifo) <= s.depth
    /\ (s.pc = "idle") =>
           /\ ~UGt(InFlight(s), s.depth)
           /\ Len(s.txFifo) + Len(s.rxFifo) = InFlight(s)

\* The program is followed up to the first inconsistent state.
Followed == Consistent(Cur)

XSpiPs_TransferCall ==
    /\ Followed
    /\ pc = "idle"
    /\ isReady
    /\ \E recv \in RecvOwn, n \in 1..MaxBytes :
           Commit(CallEnter(Cur, recv, n, "intr", "T335"))

TransferStatement ==
    /\ Followed
    /\ pc \in TransferPcs
    /\ Commit(TransferStep(Cur))

XSpiPs_PolledTransferCall ==
    /\ Followed
    /\ pc = "idle"
    /\ isReady
    /\ \E recv \in RecvOwn, n \in 1..MaxBytes :
           Commit(CallEnter(Cur, recv, n, "polled", "P488"))

PolledStatement ==
    /\ Followed
    /\ pc \in PolledPcs
    /\ (pc = "P552") => ("TXOW" \in ReadSR(Cur))
    /\ Commit(PolledStep(Cur))

XSpiPs_AbortCall ==
    /\ Followed
    /\ pc = "idle"
    /\ Commit([XSpiPs_Disable(Cur) EXCEPT !.pc = "A1057"])

AbortStatement ==
    /\ Followed
    /\ pc \in AbortPcs
    /\ Commit(AbortStep(Cur))

\* The handler runs whole between two statements of a call, or with no call
\* in progress, whenever the interrupt is raised.
PreemptingHandler ==
    /\ Followed
    /\ isReady
    /\ IrqPending(Cur)
    /\ IF HandlerStrays(Cur)
       THEN Commit(Stray(Cur))
       ELSE Commit(HandlerBody(Cur))

NextPreempt ==
    \/ XSpiPs_TransferCall
    \/ TransferStatement
    \/ XSpiPs_PolledTransferCall
    \/ PolledStatement
    \/ XSpiPs_AbortCall
    \/ AbortStatement
    \/ PreemptingHandler
    \/ HwClock

SpecPreempt == Init /\ [][NextPreempt]_vars

(* ------------------------------- claims ------------------------------- *)

Min(a, b) == IF a < b THEN a ELSE b

Ceil(n, d) == (n + d - 1) \div d

\* The events the last handler invocation delivered to the callback.
Delivered(event) == \E i \in 1..Len(cbLog) : cbLog[i].event = event

\* The last accepted transfer was a polled one and its call has returned.
PolledReturned == curMode = "polled" /\ pc = "idle"

\* The last accepted transfer was interrupt driven, all its bytes came back
\* and the handler has just reported it done.
IntrCompleted ==
    /\ curMode = "intr"
    /\ Len(rxLog) = curN
    /\ Delivered("XST_SPI_TRANSFER_DONE")

\* C1: a transfer() or polledTransfer() call made while isBusy is true
\* returns XST_DEVICE_BUSY and changes nothing: not the buffers, the
\* counters, isBusy, the cached slave select, any register or any FIFO.
C1_BusyRejected ==
    (pc = "idle" /\ isBusy) =>
        \A recv \in RecvAll, n \in 1..MaxBytes :
            /\ TransferBody(Cur, recv, n) = [Cur EXCEPT !.ret = "XST_DEVICE_BUSY"]
            /\ PolledEntryBody(Cur, recv, n) = [Cur EXCEPT !.ret = "XST_DEVICE_BUSY"]

\* A transfer is in flight, with bytes queued and bytes still to queue, and
\* the caller can call.
C1_Witness ==
    /\ pc = "idle"
    /\ isBusy
    /\ txFifo # <<>>
    /\ remainingBytes # 0
    /\ TransferBody(Cur, "B", 1).ret = "XST_DEVICE_BUSY"

\* C2: at most one transfer is in flight: while bytes of an accepted
\* transfer are not yet retired (requestedBytes > 0) and the device is still
\* enabled, isBusy is true, so no new transfer is accepted.
C2_OneInFlight == (requestedBytes # 0 /\ enabled) => isBusy

\* C3: requestedBytes >= remainingBytes in every state, and after the
\* receive loop of a polled pass and of the handler.
C3_RequestedGeRemaining ==
    /\ CountersOrdered(Cur)
    /\ (pc = "polled_wait") => CountersOrdered(DrainLoop(Cur))
    /\ (pc = "idle") =>
           CountersOrdered(DrainLoop([Cur EXCEPT !.transCount =
                               Sub32(requestedBytes, remainingBytes)]))

\* Both engines have filled and drained, and bytes are still to be sent.
C3_Witness ==
    /\ isBusy
    /\ Len(rxLog) > 0
    /\ remainingBytes # 0
    /\ requestedBytes = curN - Len(rxLog)
    /\ remainingBytes = curN - Len(txLog)
    /\ curMode = "intr"

\* C4: between operations, requestedBytes and remainingBytes are both zero
\* exactly when no transfer is outstanding: isBusy is true exactly when
\* requestedBytes > 0.
C4_BusyIffRequested ==
    /\ isBusy <=> (requestedBytes # 0)
    /\ ~isBusy <=> (requestedBytes = 0 /\ remainingBytes = 0)

\* C5: a polled transfer of N bytes on a FIFO of depth D makes ceil(N/D)
\* passes, pass i queues min(D, bytes left), and at return N bytes were
\* written to TXD and N bytes read from RXD.
PassSizesRight ==
    \A i \in 1..Len(fills) : fills[i] = Min(depth, curN - (i - 1) * depth)

C5_PolledPasses ==
    /\ (curMode = "polled") => PassSizesRight
    /\ PolledReturned =>
           /\ Len(fills) = Ceil(curN, depth)
           /\ Len(txLog) = curN
           /\ Len(rxLog) = curN

\* A polled transfer of three bytes through a FIFO of depth two has returned.
C5_Witness ==
    /\ PolledReturned
    /\ curN = 3
    /\ depth = 2
    /\ fills = <<2, 1>>

\* C6: when an accepted polledTransfer returns it returns XST_SUCCESS and
\* leaves the instance idle: isBusy false, both counters zero, the device
\* disabled, and all slave select bits high if manual chip select.
C6_PolledExitIdle ==
    (pc = "polled_wait" /\ "TXOW" \in ReadSR(Cur)) =>
        LET r == PolledPassBody(Cur)
        IN  (r.pc = "idle") =>
                /\ r.ret = "XST_SUCCESS"
                /\ ~r.isBusy
                /\ r.requestedBytes = 0
                /\ r.remainingBytes = 0
                /\ ~r.enabled
                /\ XSpiPs_IsManualChipSelect(r) => r.cr.ss = XSPIPS_CR_SSCTRL_MAXIMUM

\* A polled transfer under manual chip select has returned.
C6_Witness ==
    /\ PolledReturned
    /\ cr.ssforce
    /\ cr.ss = XSPIPS_CR_SSCTRL_MAXIMUM
    /\ ~isBusy
    /\ ~enabled
    /\ Len(rxLog) = curN
    /\ curN = MaxBytes

\* C7: with distinct buffers, after a transfer completes each send byte was
\* written to TXD once and in order, receive byte i is the i-th byte read
\* from RXD, and on a bus that loops back the receive buffer equals the send
\* buffer; isBusy is false.
C7_DataIntegrity ==
    ((PolledReturned \/ IntrCompleted) /\ curRecv = "B") =>
        /\ txLog = Pattern(curN)
        /\ \A i \in 1..curN : mem["B"][i] = rxLog[i]
        /\ (bus = "loopback") => mem["B"] = mem["A"]
        /\ Delivered("XST_SPI_TRANSFER_DONE") => ~cbLog[Len(cbLog)].isBusy
        /\ PolledReturned => ~isBusy

\* The last accepted transfer was interrupt driven and the handler has just
\* reported it done.
IntrDone == curMode = "intr" /\ Delivered("XST_SPI_TRANSFER_DONE")

\* C8: a transfer without a receive buffer completes: RXD is read once for
\* every byte transmitted, requestedBytes reaches zero, no memory is written
\* for received bytes and the receive cursor stays null.
NullRecvDone(r) ==
    /\ Len(r.txLog) = curN
    /\ Len(r.rxLog) = curN
    /\ r.requestedBytes = 0
    /\ r.remainingBytes = 0
    /\ ~r.isBusy
    /\ r.recvBufferPtr = NULL
    /\ r.memWrites = 0

C8_NullRecv ==
    (curRecv = "null" /\ curMode # "none") =>
        /\ recvBufferPtr = NULL
        /\ memWrites = 0
        /\ mem = [A |-> Pattern(curN), B |-> Zeros(curN)]
        /\ Len(rxLog) <= Len(txLog)
        /\ PolledReturned => NullRecvDone(Cur)
        /\ (pc = "polled_wait" /\ "TXOW" \in ReadSR(Cur)) =>
               LET r == PolledPassBody(Cur)
               IN  /\ Len(r.rxLog) = Len(txLog)
                   /\ (r.pc = "idle") => r.ret = "XST_SUCCESS"
        /\ (pc = "idle" /\ isBusy /\ curMode = "intr" /\ IrqPending(Cur)
                /\ "TXOW" \in ReadSR(Cur)
                /\ "MODF" \notin ReadSR(Cur)) =>
               LET r == HandlerBody(Cur)
               IN  /\ Len(r.rxLog) = Len(txLog)
                   /\ (\E i \in 1..Len(r.cbLog) :
                           r.cbLog[i].event = "XST_SPI_TRANSFER_DONE")
                          => NullRecvDone(r)

\* An interrupt driven transfer of the most bytes, without a receive buffer,
\* has been reported done with every byte read back.
C8_Witness ==
    /\ curRecv = "null"
    /\ IntrDone
    /\ curN = MaxBytes
    /\ Len(rxLog) = MaxBytes
    /\ requestedBytes = 0
    /\ recvBufferPtr = NULL

\* C9: an accepted transfer() returns XST_SUCCESS after one fill pass and no
\* drain: isBusy is true, requestedBytes = N, remainingBytes = N - min(N, D),
\* min(N, D) bytes were written to TXD, RXD was not read, the device is
\* enabled and the transmit-ready interrupt is unmasked.
C9_TransferAccepted ==
    (pc = "idle" /\ ~isBusy) =>
        \A recv \in RecvNoAlias, n \in 1..MaxBytes :
            LET r == TransferBody(Cur, recv, n)
            IN  /\ r.ret = "XST_SUCCESS"
                /\ r.isBusy
                /\ r.requestedBytes = n
                /\ r.remainingBytes = n - Min(n, depth)
                /\ r.fills = <<Min(n, depth)>>
                /\ r.txLog = Pattern(Min(n, depth))
                /\ r.rxLog = <<>>
                /\ r.rxFifo = rxFifo
                /\ r.enabled
                /\ XSPIPS_IXR_TXOW_MASK \subseteq r.imr

\* transfer() has just returned from a call for more bytes than the FIFO
\* holds.
C9_Witness ==
    /\ curMode = "intr"
    /\ pc = "idle"
    /\ isBusy
    /\ curN > depth
    /\ requestedBytes = curN
    /\ remainingBytes = curN - depth
    /\ txLog = Pattern(depth)
    /\ rxLog = <<>>
    /\ enabled
    /\ "TXOW" \in imr

\* C10: the callback gets XST_SPI_TRANSFER_DONE only with the device idle:
\* the interrupts masked, the slave select lines high if manual chip select,
\* isBusy false and the device disabled; a transfer() made from the callback
\* is accepted.
C10_DoneAfterIdle ==
    /\ \A i \in 1..Len(cbLog) :
           (cbLog[i].event = "XST_SPI_TRANSFER_DONE") =>
               /\ cbLog[i].imr \cap XSPIPS_IXR_DFLT_MASK = {}
               /\ XSpiPs_IsManualChipSelect(Cur) => cbLog[i].ss = XSPIPS_CR_SSCTRL_MAXIMUM
               /\ ~cbLog[i].isBusy
               /\ ~cbLog[i].enabled
    /\ (pc = "idle" /\ "TXOW" \in ReadSR(Cur) /\ "MODF" \notin ReadSR(Cur)) =>
           LET d == TxowBranch(HandlerEntry(Cur), ReadSR(Cur))
           IN  (d.cbLog # cbLog) => TransferBody(d, "B", 1).ret = "XST_SUCCESS"

\* The handler has reported a transfer under manual chip select done.
C10_Witness ==
    /\ IntrDone
    /\ cr.ssforce
    /\ Len(rxLog) = curN
    /\ curN > depth

\* The handler is entered for a transfer in flight with transmit-ready
\* latched and no mode fault.
TxReadyEntry ==
    /\ pc = "idle"
    /\ isReady
    /\ isBusy
    /\ curMode = "intr"
    /\ "TXOW" \in ReadSR(Cur)
    /\ "MODF" \notin ReadSR(Cur)

\* C11: when an interrupt driven transfer of N bytes completes, the count
\* the callback gets with XST_SPI_TRANSFER_DONE is N.
C11_DoneCount ==
    TxReadyEntry =>
        LET r == HandlerBody(Cur)
        IN  \A i \in 1..Len(r.cbLog) :
                (r.cbLog[i].event = "XST_SPI_TRANSFER_DONE") => r.cbLog[i].count = curN

\* The handler is entered with mode fault latched.
ModeFaultEntry ==
    /\ pc = "idle"
    /\ isReady
    /\ "MODF" \in ReadSR(Cur)

\* C12: with mode fault latched, whatever else is latched, the handler makes
\* one callback, XST_SPI_MODE_FAULT, handles no other flag (no fill, no
\* drain, no interrupt enable), and at the callback isBusy is false, both
\* counters are zero, the device is disabled and the receive FIFO is empty.
C12_ModeFaultOnly ==
    ModeFaultEntry =>
        LET r == HandlerBody(Cur)
        IN  /\ Len(r.cbLog) = 1
            /\ r.cbLog[1].event = "XST_SPI_MODE_FAULT"
            /\ ~r.cbLog[1].isBusy
            /\ r.cbLog[1].requestedBytes = 0
            /\ r.cbLog[1].remainingBytes = 0
            /\ ~r.cbLog[1].enabled
            /\ r.cbLog[1].rxFifo = <<>>
            /\ r.txLog = txLog
            /\ r.rxLog = rxLog
            /\ r.fills = fills
            /\ r.sendBufferPtr = sendBufferPtr
            /\ r.recvBufferPtr = recvBufferPtr
            /\ r.mem = mem
            /\ r.imr = imr \ XSPIPS_IXR_TXOW_MASK
            /\ r.cr = cr

\* Mode fault is latched together with transmit-ready, receive overrun and
\* transmit underrun, during a transfer with a byte waiting in the receive
\* FIFO.
C12_Witness ==
    /\ ModeFaultEntry
    /\ isBusy
    /\ IrqPending(Cur)
    /\ "TXOW" \in ReadSR(Cur)
    /\ "RXOVR" \in ReadSR(Cur)
    /\ "TXUF" \in ReadSR(Cur)
    /\ rxFifo # <<>>
    /\ Len(HandlerBody(Cur).cbLog) = 1

\* C13: a mode fault during an interrupt driven transfer of which k bytes
\* were read back is reported with the byte count k.
C13_ModeFaultCount ==
    (ModeFaultEntry /\ isBusy /\ curMode = "intr") =>
        HandlerBody(Cur).cbLog[1].count = Len(rxLog)

\* The events that report a runtime fault.
FaultEvents == {"XST_SPI_MODE_FAULT", "XST_SPI_RECEIVE_OVERRUN", "XST_SPI_TRANSMIT_UNDERRUN"}

\* C14: at every callback that reports a runtime fault the device is idle:
\* isBusy is false, the slave select lines are high (under manual chip
\* select) and the device is disabled.
C14_FaultIdle ==
    \A i \in 1..Len(cbLog) :
        (cbLog[i].event \in FaultEvents) =>
            /\ ~cbLog[i].isBusy
            /\ XSpiPs_IsManualChipSelect(Cur) => cbLog[i].ss = XSPIPS_CR_SSCTRL_MAXIMUM
            /\ ~cbLog[i].enabled

\* The handler is entered without mode fault latched.
NoModeFaultEntry ==
    /\ pc = "idle"
    /\ isReady
    /\ "MODF" \notin ReadSR(Cur)

\* The place of an event in the handler's order of processing.
EventRank(e) ==
    CASE e = "XST_SPI_TRANSFER_DONE" -> 1
      [] e = "XST_SPI_RECEIVE_OVERRUN" -> 2
      [] e = "XST_SPI_TRANSMIT_UNDERRUN" -> 3
      [] OTHER -> 0

\* The callbacks of log with the given event.
CallsWith(log, e) == {i \in 1..Len(log) : log[i].event = e}

\* A fault callback as the claim has it: isBusy false, the slave select
\* lines high under manual chip select, the count RequestedBytes -
\* RemainingBytes, and the counters and the receive FIFO as the transmit-ready
\* branch left them.
FaultCallOk(c, a) ==
    /\ ~c.isBusy
    /\ XSpiPs_IsManualChipSelect(a) => c.ss = XSPIPS_CR_SSCTRL_MAXIMUM
    /\ c.count = Sub32(a.requestedBytes, a.remainingBytes)
    /\ c.requestedBytes = a.requestedBytes
    /\ c.remainingBytes = a.remainingBytes
    /\ c.rxFifo = a.rxFifo

OneLow(k) ==
    IF k = XSPIPS_CR_SSCTRL_MAXIMUM
    THEN XSPIPS_CR_SSCTRL_MAXIMUM
    ELSE XSPIPS_CR_SSCTRL_MAXIMUM - 2 ^ k

\* C16: XSpiPs_SetSlaveSelect called while isBusy returns XST_DEVICE_BUSY
\* and changes neither the cached slaveSelect nor the slave select field of
\* CR (nor anything else), for every valid index.
C16_SlaveSelectBusy ==
    (pc = "idle" /\ isReady /\ isBusy) =>
        \A k \in SlaveSels :
            SetSlaveSelectBody(Cur, k) = [Cur EXCEPT !.ret = "XST_DEVICE_BUSY"]

\* A transfer under manual chip select is in flight on line 1.
C16_Witness ==
    /\ pc = "idle"
    /\ isReady
    /\ isBusy
    /\ cr.ssforce
    /\ SsField(slaveSelect) = OneLow(1)
    /\ cr.ss = OneLow(1)
    /\ SetSlaveSelectBody(Cur, 0).ret = "XST_DEVICE_BUSY"

\* C17: after a successful XSpiPs_SetSlaveSelect(k), whatever was selected
\* before, the cached slaveSelect and the slave select field of CR both hold
\* the one-low encoding of k, and the other bits of CR are unchanged.
C17_SlaveSelectSet ==
    (pc = "idle" /\ isReady /\ ~isBusy) =>
        \A k \in SlaveSels :
            LET r == SetSlaveSelectBody(Cur, k)
            IN  /\ r.ret = "XST_SUCCESS"
                /\ SsField(r.slaveSelect) = OneLow(k)
                /\ r.slaveSelect = OneLow(k) * (2 ^ XSPIPS_CR_SSCTRL_SHIFT)
                /\ r.cr.ss = OneLow(k)
                /\ r.cr = [cr EXCEPT !.ss = r.cr.ss]

\* C18: XSpiPs_GetSlaveSelect after a successful XSpiPs_SetSlaveSelect(k)
\* returns k, for every wired line k and for XSPIPS_CR_SSCTRL_MAXIMUM (none).
C18_SlaveSelectRoundTrip ==
    (pc = "idle" /\ isReady /\ ~isBusy) =>
        \A k \in SlaveSels :
            GetSlaveSelectValue(SetSlaveSelectBody(Cur, k).slaveSelect) = k

\* C19: XSpiPs_Abort may be called in any state: afterwards isBusy is false,
\* both counters are zero, the device is disabled, the receive FIFO is empty
\* and the mode fault flag is clear; the buffers and the cached slaveSelect
\* are not changed, and with no transfer active isBusy and the counters stay
\* as they were.
C19_Abort ==
    LET r == AbortBody(Cur)
    IN  /\ ~r.isBusy
        /\ r.requestedBytes = 0
        /\ r.remainingBytes = 0
        /\ ~r.enabled
        /\ r.rxFifo = <<>>
        /\ "RXNEMPTY" \notin ReadSR(r)
        /\ "MODF" \notin ReadSR(r)
        /\ r.mem = mem
        /\ r.sendBufferPtr = sendBufferPtr
        /\ r.recvBufferPtr = recvBufferPtr
        /\ r.slaveSelect = slaveSelect
        /\ (~isBusy /\ requestedBytes = 0 /\ remainingBytes = 0) =>
               /\ r.isBusy = isBusy
               /\ r.requestedBytes = requestedBytes
               /\ r.remainingBytes = remainingBytes

\* A transfer is in flight with bytes still to send, an answer waiting in the
\* receive FIFO and mode fault raised: the state XSpiPs_Abort is called in.
C19_Witness ==
    /\ pc = "idle"
    /\ isBusy
    /\ enabled
    /\ remainingBytes # 0
    /\ rxFifo # <<>>
    /\ "MODF" \in ReadSR(Cur)
    /\ AbortBody(Cur).rxFifo = <<>>

\* C20: XSpiPs_CfgInitialize on a busy instance returns
\* XST_DEVICE_IS_STARTED and changes nothing; otherwise it returns
\* XST_SUCCESS and leaves the instance ready and idle: the base address
\* bound, isBusy false, both counters zero, the buffers null, the callback
\* the stub, the device disabled with its receive FIFO empty and CR at its
\* reset value.
C20_CfgInitialize ==
    (pc = "idle") =>
        \A addr \in BaseAddrs :
            LET r == CfgInitializeBody(Cur, addr)
            IN  IF isBusy
                THEN r = [Cur EXCEPT !.ret = "XST_DEVICE_IS_STARTED"]
                ELSE /\ r.ret = "XST_SUCCESS"
                     /\ r.isReady
                     /\ r.baseAddress = addr
                     /\ ~r.isBusy
                     /\ r.requestedBytes = 0
                     /\ r.remainingBytes = 0
                     /\ r.sendBufferPtr = NULL
                     /\ r.recvBufferPtr = NULL
                     /\ r.statusHandler = "StubStatusHandler"
                     /\ ~r.enabled
                     /\ r.rxFifo = <<>>
                     /\ "MODF" \notin ReadSR(r)
                     /\ r.cr = XSPIPS_CR_RESET_STATE

\* The instance is busy with a transfer, configured by its user (handler,
\* manual chip select, a slave selected): XSpiPs_CfgInitialize is refused.
C20_Witness ==
    /\ pc = "idle"
    /\ isBusy
    /\ statusHandler = "UserStatusHandler"
    /\ baseAddress = "XPAR_XSPIPS_1_BASEADDR"
    /\ cr.ssforce
    /\ slaveSelect # 0
    /\ CfgInitializeBody(Cur, "XPAR_XSPIPS_0_BASEADDR").ret = "XST_DEVICE_IS_STARTED"

LastFill == IF fills = <<>> THEN 0 ELSE fills[Len(fills)]

\* The handler is entered with transmit-ready latched and no mode fault
\* while bytes of a transfer are still to be read back.
TxReadyOutstanding ==
    /\ pc = "idle"
    /\ isReady
    /\ requestedBytes # 0
    /\ "TXOW" \in ReadSR(Cur)
    /\ "MODF" \notin ReadSR(Cur)

\* C22: every drain reads RXD as many times as the fill before it wrote TXD.
\* In the polled engine the count is TransCount of the same pass; in the
\* handler it is RequestedBytes - RemainingBytes, which equals the size of
\* the last fill (by XSpiPs_Transfer or by the previous invocation).  The
\* bytes are there to be read, and RXD is never read more often than TXD was
\* written.
C22_FillDrainPairing ==
    /\ Len(rxLog) <= Len(txLog)
    /\ (pc = "polled_wait") =>
           /\ transCount = LastFill
           /\ ("TXOW" \in ReadSR(Cur)) =>
                  /\ Len(rxFifo) >= LastFill
                  /\ Len(DrainLoop(Cur).rxLog) = Len(rxLog) + LastFill
                  /\ Len(DrainLoop(Cur).rxLog) = Len(txLog)
    /\ TxReadyOutstanding =>
           LET TransCount == Sub32(requestedBytes, remainingBytes)
               d == DrainLoop([Cur EXCEPT !.transCount = TransCount])
           IN  /\ TransCount = LastFill
               /\ Len(rxFifo) >= LastFill
               /\ Len(d.rxLog) = Len(rxLog) + LastFill
               /\ Len(d.rxLog) = Len(txLog)

\* The handler is entered for the second pass of a transfer of three bytes
\* through a FIFO of depth two: two bytes read back, one byte queued and
\* clocked, waiting to be read.
C22_Witness ==
    /\ TxReadyOutstanding
    /\ IrqPending(Cur)
    /\ curMode = "intr"
    /\ fills = <<2, 1>>
    /\ Len(rxLog) = 2
    /\ Len(rxFifo) = 1
    /\ Sub32(requestedBytes, remainingBytes) = 1

\* The receive cursor of s is not ahead of its send cursor.
DrainLagsFill(s) ==
    /\ ~UGt(s.remainingBytes, s.requestedBytes)
    /\ s.recvBufferPtr.off <= s.sendBufferPtr.off

\* C23: the drain lags the fill in both engines: the receive cursor (at
\* N - requestedBytes) is never ahead of the send cursor (at
\* N - remainingBytes), before and after every receive loop.  So with the
\* send buffer given as the receive buffer too, a received byte lands on
\* position i only after send byte i was read: every byte written to TXD is
\* the caller's own, and the bytes not yet read back are still in place.
C23_DrainLagsFill ==
    (curMode # "none") =>
        /\ DrainLagsFill(Cur)
        /\ isBusy =>
               /\ sendBufferPtr.off = curN - remainingBytes
               /\ (curRecv # "null") => recvBufferPtr.off = curN - requestedBytes
        /\ txLog = Pattern(Len(txLog))
        /\ \A i \in 1..curN : (i > Len(rxLog)) => mem["A"][i] = i
        /\ (curRecv = "A") =>
               \A i \in 1..Len(rxLog) : mem["A"][i] = rxLog[i]
        /\ (pc = "polled_wait") => DrainLagsFill(DrainLoop(Cur))
        /\ (pc = "idle") =>
               DrainLagsFill(DrainLoop([Cur EXCEPT !.transCount =
                                 Sub32(requestedBytes, remainingBytes)]))

\* A transfer of three bytes through a FIFO of depth two, received into the
\* send buffer from a bus that answers other bytes than it is sent, is
\* complete: the bytes sent were the caller's, the buffer holds the answers.
C23_Witness ==
    /\ curRecv = "A"
    /\ bus = "offset"
    /\ depth = 2
    /\ curN = 3
    /\ ~isBusy
    /\ txLog = Pattern(3)
    /\ Len(rxLog) = 3
    /\ mem["A"] = rxLog
    /\ mem["A"] # Pattern(3)
    /\ recvBufferPtr.off = sendBufferPtr.off

\* C24: with a device that keeps clocking, so that transmit-ready is set
\* after each fill, every accepted polledTransfer returns.  Its loop exits
\* exactly when remainingBytes and requestedBytes are both 0 after a drain;
\* while transmit-ready is not set the call does not return and isBusy stays
\* true: the polled path has no other exit.
C24_PolledTerminates ==
    /\ (pc = "polled_wait") ~> (pc = "idle" /\ ~isBusy /\ curMode = "polled")
    /\ [](pc = "polled_wait" => isBusy)
    /\ []((pc = "polled_wait" /\ "TXOW" \in ReadSR(Cur)) =>
              LET d == DrainLoop(Cur)
              IN  (PolledPassBody(Cur).pc = "idle")
                      <=> (d.remainingBytes = 0 /\ d.requestedBytes = 0))
    /\ [][(pc = "polled_wait" /\ "TXOW" \notin ReadSR(Cur))
              => (pc' = "polled_wait" /\ isBusy')]_vars

\* polledTransfer waits for transmit-ready in its second pass, under manual
\* start: the byte it queued has not been clocked yet.
C24_Witness ==
    /\ pc = "polled_wait"
    /\ isBusy
    /\ "TXOW" \notin ReadSR(Cur)
    /\ fills = <<2, 1>>
    /\ Len(rxLog) = 2
    /\ XSpiPs_IsManualStart(Cur)
    /\ manStart

\* The completion state of an interrupt driven transfer: isBusy false, both
\* counters 0, XST_SPI_TRANSFER_DONE delivered, after ceil(N/D) invocations
\* of the handler.
IntrCompletion ==
    /\ curMode = "intr"
    /\ ~isBusy
    /\ requestedBytes = 0
    /\ remainingBytes = 0
    /\ Delivered("XST_SPI_TRANSFER_DONE")
    /\ handlerRuns = Ceil(curN, depth)

\* An interrupt driven transfer is in flight and the bus has raised no fault.
IntrInFlight == curMode = "intr" /\ isBusy /\ faults = 0

\* C25: without a fault, and with the handler invoked on every unmasked
\* transmit-ready interrupt, every accepted transfer() reaches its completion
\* state, after exactly ceil(N/D) invocations.  An invocation that does not
\* complete the transfer leaves bytes queued, transmit-ready unmasked and,
\* under manual start in master mode, the start command given: a transfer in
\* flight is never left with the interrupt masked or the device unable to
\* clock.
C25_IntrCompletes ==
    /\ IntrInFlight ~> (IntrCompletion \/ faults # 0)
    /\ []((faults = 0 /\ curMode = "intr" /\ Delivered("XST_SPI_TRANSFER_DONE"))
              => IntrCompletion)
    /\ [](IntrInFlight =>
              /\ handlerRuns < Ceil(curN, depth)
              /\ XSPIPS_IXR_TXOW_MASK \subseteq imr
              /\ enabled
              /\ (txFifo # <<>>) => CanClock(Cur)
              /\ (txFifo = <<>>) => IrqPending(Cur)
              /\ LET r == HandlerBody(Cur)
                 IN  (IrqPending(Cur) /\ r.isBusy) =>
                         /\ XSPIPS_IXR_TXOW_MASK \subseteq r.imr
                         /\ r.txFifo # <<>>
                         /\ (XSpiPs_IsManualStart(r) /\ XSpiPs_IsMaster(r)) => r.manStart
                         /\ r.handlerRuns = handlerRuns + 1)

\* A transfer of three bytes through a FIFO of depth two, under manual start
\* in master mode, is complete after two invocations of the handler.
C25_Witness ==
    /\ IntrCompletion
    /\ faults = 0
    /\ curN = 3
    /\ depth = 2
    /\ handlerRuns = 2
    /\ fills = <<2, 1>>
    /\ XSpiPs_IsManualStart(Cur)
    /\ XSpiPs_IsMaster(Cur)

\* C26: the bytes in flight, written to TXD and not yet read from RXD, are
\* RequestedBytes - RemainingBytes and never exceed the FIFO depth: no fill
\* pass queues more than the depth, and the FIFOs never hold more than the
\* depth of bytes that were queued and not drained.
C26_InFlightBounded ==
    /\ ~UGt(Sub32(requestedBytes, remainingBytes), depth)
    /\ \A i \in 1..Len(fills) : fills[i] <= depth
    /\ Len(txFifo) + Len(rxFifo) <= depth
    /\ isBusy => Len(txFifo) + Len(rxFifo) = Sub32(requestedBytes, remainingBytes)

\* C27: an invocation of the handler for an interrupt driven transfer in
\* flight makes at most one callback, whatever flags it latched, and an
\* invocation that makes a callback has not continued the transfer: it
\* queued no byte and left transmit-ready masked.
C27_OneTerminalEvent ==
    (pc = "idle" /\ isReady /\ isBusy /\ curMode = "intr" /\ IrqPending(Cur)) =>
        LET r == HandlerBody(Cur)
        IN  /\ Len(r.cbLog) <= 1
            /\ (r.cbLog # <<>>) =>
                   /\ r.txLog = txLog
                   /\ XSPIPS_IXR_TXOW_MASK \cap r.imr = {}

\* C28: an invocation of the handler that finds no transfer outstanding
\* (isBusy false, both counters 0) with transmit-ready set makes no
\* XST_SPI_TRANSFER_DONE callback and leaves the instance as it was.
C28_NoSpuriousDone ==
    (pc = "idle" /\ isReady /\ ~isBusy /\ requestedBytes = 0 /\ remainingBytes = 0
         /\ IrqPending(Cur) /\ "TXOW" \in ReadSR(Cur)) =>
        LET r == HandlerBody(Cur)
        IN  /\ CallsWith(r.cbLog, "XST_SPI_TRANSFER_DONE") = {}
            /\ r.isBusy = isBusy
            /\ r.requestedBytes = requestedBytes
            /\ r.remainingBytes = remainingBytes
            /\ r.sendBufferPtr = sendBufferPtr
            /\ r.recvBufferPtr = recvBufferPtr

\* C29: with the handler running whole between any two statements of an
\* XSpiPs_Transfer, XSpiPs_PolledTransfer or XSpiPs_Abort call in progress,
\* the counters and cursors stay consistent: no statement reads or writes
\* past a buffer, requestedBytes >= remainingBytes, every send-buffer byte is
\* written to TXD once and in order, the FIFOs never hold more than the
\* depth, and whenever no call is in progress the bytes in the FIFOs are
\* requestedBytes - remainingBytes and no more than the depth.
C29_PreemptionSafe == Consistent(Cur)

====
